---- MODULE Spec2Model ----
(***************************************************************************)
(* Model of the FinancialAudit contract (src/test/FinancialAudit.test.ts,  *)
(* lines 204-499): a ledger of accounts and audit records that stores only *)
(* keccak256 commitments.  Every external function is one action; a call   *)
(* that reverts leaves the storage untouched and records the revert        *)
(* message in `result`.                                                    *)
(***************************************************************************)
EXTENDS Integers, Sequences, FiniteSets, TLC

(***************************************************************************)
(* Bounds of the model.                                                    *)
(***************************************************************************)
MaxTx == 3            \* transactions (mined or reverted) in a behaviour

\* the longer behaviours of SpecDeep: one transaction more
DeepTx == MaxTx + 1

MaxSent == 2          \* transactions the App submits in a behaviour

(***************************************************************************)
(* Identities.  address(0) is 0; the signers of the test suite are 1..3    *)
(* (auditor, accountOwner, otherUser), and the first of them deploys.      *)
(***************************************************************************)
Users == {1, 2, 3}
Addresses == Users \cup {0}

\* the signer that deploys the contract: the first one
Deployer == 1

\* block.timestamp of the blocks of a behaviour
Timestamps == {1, 2}

\* block.prevrandao of a block (blocks differ by their timestamp already)
Randao == {0}

(***************************************************************************)
(* Byte strings are sequences of integers.  A uint256 or an address packs  *)
(* to one element; keccak256 is modelled as a free (collision-free)        *)
(* constructor that brackets its preimage, so two digests are equal        *)
(* exactly when their preimages are.                                       *)
(***************************************************************************)
keccak256(data) == <<-1>> \o data \o <<-2>>

\* abi.encodePacked(uint256(0))
PackedZero == <<0>>

\* the zero value of a bytes32 storage slot
ZeroWord == <<0>>

\* `bytes calldata` arguments offered by callers (32 zero bytes and another)
BytesArgs == {<<0>>, <<5>>}

\* `string calldata` arguments offered by callers
StringArgs == {<<8>>}

\* `string calldata auditType` arguments offered by the auditor
AuditTypeArgs == {<<8>>, <<9>>}

(***************************************************************************)
(* Revert messages.                                                        *)
(***************************************************************************)
OK == "ok"
ErrNotAuditor == "FinancialAudit: caller is not the auditor"
ErrNotOwner == "FinancialAudit: caller is not account owner"
ErrInvalidAccount == "FinancialAudit: invalid account ID"
ErrInactive == "FinancialAudit: account is not active"
ErrAuditMissing == "FinancialAudit: audit does not exist"
ErrAuditCompleted == "FinancialAudit: audit already completed"
ErrZeroAuditor == "FinancialAudit: new auditor cannot be zero address"
ErrSameAuditor == "FinancialAudit: new auditor cannot be current auditor"
ErrBalanceAccess == "FinancialAudit: unauthorized access to encrypted balance"
ErrTxAccess == "FinancialAudit: unauthorized access to encrypted transactions"

\* The error kinds of the specification, as sets of revert messages
Unauthorized == {ErrNotAuditor, ErrNotOwner, ErrBalanceAccess, ErrTxAccess}
InvalidAccount == {ErrInvalidAccount}
InactiveAccount == {ErrInactive}
AuditNotFound == {ErrAuditMissing}
AuditAlreadyCompleted == {ErrAuditCompleted}
InvalidAuditor == {ErrZeroAuditor, ErrSameAuditor}

VARIABLES
    auditor,         \* address public auditor
    totalAccounts,   \* uint256 public totalAccounts
    accounts,        \* mapping(uint256 => PrivateAccount), written keys
    auditRecords,    \* mapping(uint256 => AuditRecord), written keys
    userAccounts,    \* mapping(address => uint256[])
    accountAudits,   \* mapping(uint256 => uint256[]), written keys
    events,          \* the log of emitted events
    timestamp,       \* block.timestamp of the current block
    prevrandao,      \* block.prevrandao of the current block
    txLeft,          \* transactions the behaviour may still send
    result           \* the last transaction: function, arguments, outcome

\* The state of the front-end App (src/unnamed/part_001) that its three
\* transaction handlers read and write
VARIABLES
    loading,             \* useState<boolean>(false)
    transactionHistory,  \* useState<TransactionStatus[]>([]), newest first
    message,             \* the message on display, by its kind
    handler,             \* the handler that is running, "none" if none is
    pc,                  \* the await the running handler is suspended at
    txResponseHash,      \* txResponse.hash of the running handler
    sent                 \* transactions the App has submitted so far

ledger == <<auditor, totalAccounts, accounts, auditRecords, userAccounts,
            accountAudits, events>>
block == <<timestamp, prevrandao>>
app == <<loading, transactionHistory, message, handler, pc, txResponseHash,
         sent>>
contract == <<auditor, totalAccounts, accounts, auditRecords, userAccounts,
              accountAudits, events, timestamp, prevrandao, txLeft, result>>
vars == <<auditor, totalAccounts, accounts, auditRecords, userAccounts,
          accountAudits, events, timestamp, prevrandao, txLeft, result,
          loading, transactionHistory, message, handler, pc, txResponseHash,
          sent>>

(***************************************************************************)
(* Storage defaults and mapping reads.                                     *)
(***************************************************************************)
ZeroAccount ==
    [encryptedBalance |-> ZeroWord, encryptedTransactions |-> ZeroWord,
     isActive |-> FALSE, lastUpdated |-> 0, accountOwner |-> 0,
     accountType |-> ZeroWord]

ZeroAudit ==
    [accountId |-> 0, auditedBalance |-> ZeroWord,
     discrepancyFlag |-> ZeroWord, auditTimestamp |-> 0,
     isCompleted |-> FALSE, auditType |-> ZeroWord]

\* accounts[accountId]: an unwritten key reads as the zero record
AccountAt(accountId) ==
    IF accountId \in DOMAIN accounts THEN accounts[accountId]
    ELSE ZeroAccount

\* a write that lands on every account
PutAccountEverywhere(accountId, rec) ==
    [k \in DOMAIN accounts \cup {accountId} |-> rec]

\* mapping write accounts[accountId] = rec
PutAccount(accountId, rec) ==
    [k \in DOMAIN accounts \cup {accountId} |->
        IF k = accountId THEN rec ELSE accounts[k]]

\* accountAudits[accountId]: an unwritten key reads as the empty array
AuditsOf(accountId) ==
    IF accountId \in DOMAIN accountAudits THEN accountAudits[accountId]
    ELSE <<>>

\* a push that drops what the array held
PushAuditReplacing(accountId, auditId) ==
    [k \in DOMAIN accountAudits \cup {accountId} |->
        IF k = accountId THEN <<auditId>> ELSE accountAudits[k]]

\* accountAudits[accountId].push(auditId)
PushAudit(accountId, auditId) ==
    [k \in DOMAIN accountAudits \cup {accountId} |->
        IF k = accountId THEN Append(AuditsOf(accountId), auditId)
        ELSE accountAudits[k]]

\* auditRecords[auditId]: an unwritten key reads as the zero record
AuditAt(auditId) ==
    IF auditId \in DOMAIN auditRecords THEN auditRecords[auditId]
    ELSE ZeroAudit

\* mapping write auditRecords[auditId] = rec
PutAudit(auditId, rec) ==
    [k \in DOMAIN auditRecords \cup {auditId} |->
        IF k = auditId THEN rec ELSE auditRecords[k]]

\* accountId arguments: 0, the ids that exist and the first id past the end
AccountIdArgs == 0..(totalAccounts + 1)

\* auditId arguments: every written key and one key that is never written
AuditIdArgs == DOMAIN auditRecords \cup {<<0>>}

\* number of events of one kind in the log
CountEvents(name) ==
    Cardinality({i \in 1..Len(events) : events[i].name = name})

(***************************************************************************)
(* The record of a call.                                                   *)
(***************************************************************************)
Call(op, sender, accountId, auditId, data, label, target, err, ret) ==
    [op |-> op, sender |-> sender, accountId |-> accountId,
     auditId |-> auditId, data |-> data, label |-> label,
     target |-> target, err |-> err, ret |-> ret]

NoId == <<>>
NoData == <<>>
NoRet == <<>>

\* a check followed by the rest of the function: the first revert wins
Then(check, rest) == IF check # OK THEN check ELSE rest

(***************************************************************************)
(* Modifiers.                                                              *)
(***************************************************************************)
\* a role check that still knows the deployer
onlyAuditorOrDeployer(sender) ==
    IF sender = auditor \/ sender = 1 THEN OK ELSE ErrNotAuditor

onlyAuditor(sender) ==
    IF sender = auditor THEN OK ELSE ErrNotAuditor

\* an owner check that also lets the auditor through
onlyAccountOwnerOrAuditor(sender, accountId) ==
    IF AccountAt(accountId).accountOwner = sender \/ sender = auditor
    THEN OK ELSE ErrNotOwner

onlyAccountOwner(sender, accountId) ==
    IF AccountAt(accountId).accountOwner = sender THEN OK ELSE ErrNotOwner

\* a range check that reaches one id past the last
validAccountOffByOne(accountId) ==
    IF accountId > 0 /\ accountId <= totalAccounts + 1 THEN OK
    ELSE ErrInvalidAccount

\* a range check that starts at 0
validAccountZeroBased(accountId) ==
    IF accountId >= 0 /\ accountId <= totalAccounts THEN OK
    ELSE ErrInvalidAccount

validAccount(accountId) ==
    IF accountId > 0 /\ accountId <= totalAccounts THEN OK
    ELSE ErrInvalidAccount

\* an activity check that lets every account through
activeAccountAlways(accountId) == OK

activeAccount(accountId) ==
    IF AccountAt(accountId).isActive THEN OK ELSE ErrInactive

(***************************************************************************)
(* The App as it is first rendered: no handler runs, nothing was sent.     *)
(***************************************************************************)
\* error.hash and txResponseHash when there is none
NoHash == 0

AppInit ==
    /\ loading = FALSE
    /\ transactionHistory = <<>>
    /\ message = "connect"
    /\ handler = "none"
    /\ pc = "idle"
    /\ txResponseHash = NoHash
    /\ sent = 0

(***************************************************************************)
(* constructor                                                             *)
(***************************************************************************)
\* a constructor that leaves the auditor unset
InitAuditorUnset ==
    /\ auditor = 0
    /\ totalAccounts = 0
    /\ accounts = <<>>
    /\ auditRecords = <<>>
    /\ userAccounts = [a \in Addresses |-> <<>>]
    /\ accountAudits = <<>>
    /\ events = <<>>
    /\ timestamp = 1
    /\ prevrandao \in Randao
    /\ txLeft = MaxTx
    /\ result = Call("constructor", Deployer, 0, NoId, NoData, NoData, 0,
                     OK, NoRet)
    /\ AppInit

Init ==
    /\ auditor = Deployer
    /\ totalAccounts = 0
    /\ accounts = <<>>
    /\ auditRecords = <<>>
    /\ userAccounts = [a \in Addresses |-> <<>>]
    /\ accountAudits = <<>>
    /\ events = <<>>
    /\ timestamp = 1
    /\ prevrandao \in Randao
    /\ txLeft = MaxTx
    /\ result = Call("constructor", Deployer, 0, NoId, NoData, NoData, 0,
                     OK, NoRet)
    /\ AppInit

\* a transaction is sent: one of those the behaviour may send
Transaction ==
    /\ txLeft > 0
    /\ txLeft' = txLeft - 1
    /\ UNCHANGED app

\* a new block is mined: the timestamp advances, prevrandao is fresh
NewBlock ==
    /\ timestamp + 1 \in Timestamps
    /\ timestamp' = timestamp + 1
    /\ prevrandao' \in Randao
    /\ UNCHANGED <<ledger, txLeft, result, app>>

(***************************************************************************)
(* createAccount                                                           *)
(***************************************************************************)
\* a counter that skips an id
NextAccountIdSkipping == totalAccounts + 2

NextAccountId == totalAccounts + 1

\* a new account that is not switched on
NewAccountInactive(sender, encryptedBalance, accountType) ==
    [encryptedBalance |-> keccak256(encryptedBalance),
     encryptedTransactions |-> keccak256(PackedZero),
     isActive |-> FALSE,
     lastUpdated |-> timestamp,
     accountOwner |-> sender,
     accountType |-> keccak256(accountType)]

NewAccount(sender, encryptedBalance, accountType) ==
    [encryptedBalance |-> keccak256(encryptedBalance),
     encryptedTransactions |-> keccak256(PackedZero),
     isActive |-> TRUE,
     lastUpdated |-> timestamp,
     accountOwner |-> sender,
     accountType |-> keccak256(accountType)]

createAccount(sender, encryptedBalance, accountType) ==
    /\ Transaction
    /\ LET accountId == NextAccountId
           accountTypeHash == keccak256(accountType)
       IN /\ totalAccounts' = accountId
          /\ accounts' = PutAccount(accountId,
                            NewAccount(sender, encryptedBalance, accountType))
          /\ userAccounts' = [userAccounts EXCEPT ![sender] =
                                Append(@, accountId)]
          /\ events' = Append(events,
                 [name |-> "AccountCreated", accountId |-> accountId,
                  owner |-> sender, accountType |-> accountTypeHash])
          /\ result' = Call("createAccount", sender, 0, NoId,
                            encryptedBalance, accountType, 0, OK,
                            <<accountId>>)
    /\ UNCHANGED <<auditor, auditRecords, accountAudits, block>>

(***************************************************************************)
(* updateBalance                                                           *)
(***************************************************************************)
\* the modifiers in another order: the activity is checked before the owner
updateBalanceErrActiveFirst(sender, accountId) ==
    Then(validAccount(accountId),
         Then(activeAccount(accountId),
              onlyAccountOwner(sender, accountId)))

updateBalanceErr(sender, accountId) ==
    Then(validAccount(accountId),
         Then(onlyAccountOwner(sender, accountId),
              activeAccount(accountId)))

\* the next value of the transaction-count commitment
\* a transaction count that restarts at every update
NextTxCountRestart(currentTxCount) == keccak256(keccak256(PackedZero) \o <<1>>)

NextTxCount(currentTxCount) == keccak256(currentTxCount \o <<1>>)

\* an update that hands the account to the auditor
UpdatedAccountReowned(account, encryptedNewBalance) ==
    [account EXCEPT
        !.encryptedBalance = keccak256(encryptedNewBalance),
        !.lastUpdated = timestamp,
        !.encryptedTransactions = NextTxCount(account.encryptedTransactions),
        !.accountOwner = auditor]

\* an update that forgets lastUpdated
UpdatedAccountStale(account, encryptedNewBalance) ==
    [account EXCEPT
        !.encryptedBalance = keccak256(encryptedNewBalance),
        !.encryptedTransactions = NextTxCount(account.encryptedTransactions)]

UpdatedAccount(account, encryptedNewBalance) ==
    [account EXCEPT
        !.encryptedBalance = keccak256(encryptedNewBalance),
        !.lastUpdated = timestamp,
        !.encryptedTransactions = NextTxCount(account.encryptedTransactions)]

updateBalance(sender, accountId, encryptedNewBalance, updateType) ==
    LET err == updateBalanceErr(sender, accountId) IN
    /\ Transaction
    /\ result' = Call("updateBalance", sender, accountId, NoId,
                      encryptedNewBalance, updateType, 0, err, NoRet)
    /\ IF err = OK
       THEN /\ accounts' = PutAccount(accountId,
                   UpdatedAccount(AccountAt(accountId), encryptedNewBalance))
            /\ events' = Append(events,
                   [name |-> "BalanceUpdated", accountId |-> accountId,
                    timestamp |-> timestamp,
                    updateType |-> keccak256(updateType)])
            /\ UNCHANGED <<auditor, totalAccounts, auditRecords,
                           userAccounts, accountAudits>>
       ELSE UNCHANGED ledger
    /\ UNCHANGED block

(***************************************************************************)
(* initiateAudit                                                           *)
(***************************************************************************)
\* the modifiers in another order: the account is checked before the role
initiateAuditErrAccountFirst(sender, accountId) ==
    Then(validAccount(accountId),
         Then(activeAccount(accountId),
              onlyAuditor(sender)))

initiateAuditErr(sender, accountId) ==
    Then(onlyAuditor(sender),
         Then(validAccount(accountId),
              activeAccount(accountId)))

\* uint256(keccak256(abi.encodePacked(block.timestamp, block.prevrandao,
\*                                    accountId, msg.sender)))
DeriveAuditId(sender, accountId) ==
    keccak256(<<timestamp, prevrandao, accountId, sender>>)

\* a new record without the "no discrepancy" flag
NewAuditUnflagged(accountId, auditType) ==
    [accountId |-> accountId,
     auditedBalance |-> AccountAt(accountId).encryptedBalance,
     discrepancyFlag |-> ZeroWord,
     auditTimestamp |-> timestamp,
     isCompleted |-> FALSE,
     auditType |-> keccak256(auditType)]

NewAudit(accountId, auditType) ==
    [accountId |-> accountId,
     auditedBalance |-> AccountAt(accountId).encryptedBalance,
     discrepancyFlag |-> keccak256(PackedZero),
     auditTimestamp |-> timestamp,
     isCompleted |-> FALSE,
     auditType |-> keccak256(auditType)]

initiateAudit(sender, accountId, auditType) ==
    LET err == initiateAuditErr(sender, accountId)
        auditId == DeriveAuditId(sender, accountId)
    IN
    /\ Transaction
    /\ result' = Call("initiateAudit", sender, accountId, NoId, NoData,
                      auditType, 0, err,
                      IF err = OK THEN <<auditId>> ELSE NoRet)
    /\ IF err = OK
       THEN /\ auditRecords' = PutAudit(auditId,
                                        NewAudit(accountId, auditType))
            /\ accountAudits' = PushAudit(accountId, auditId)
            /\ events' = Append(events,
                   [name |-> "AuditInitiated", accountId |-> accountId,
                    auditId |-> auditId,
                    auditType |-> keccak256(auditType)])
            /\ UNCHANGED <<auditor, totalAccounts, accounts, userAccounts>>
       ELSE UNCHANGED ledger
    /\ UNCHANGED block

(***************************************************************************)
(* completeAudit                                                           *)
(***************************************************************************)
\* an existence check that lets every id through
auditExistsAlways(auditId) == OK

auditExists(auditId) ==
    IF AuditAt(auditId).accountId # 0 THEN OK ELSE ErrAuditMissing

\* a completion check that lets a completed audit through
auditOpenAlways(auditId) == OK

auditOpen(auditId) ==
    IF ~AuditAt(auditId).isCompleted THEN OK ELSE ErrAuditCompleted

\* the checks with one more: the audited account must be active
completeAuditErrActiveAccount(sender, auditId) ==
    Then(onlyAuditor(sender),
         Then(auditExists(auditId),
              Then(auditOpen(auditId),
                   activeAccount(AuditAt(auditId).accountId))))

\* the checks in another order: the record is looked up before the role
completeAuditErrRecordFirst(sender, auditId) ==
    Then(auditExists(auditId),
         Then(auditOpen(auditId),
              onlyAuditor(sender)))

completeAuditErr(sender, auditId) ==
    Then(onlyAuditor(sender),
         Then(auditExists(auditId),
              auditOpen(auditId)))

CompletedAudit(record, encryptedFlag) ==
    [record EXCEPT !.discrepancyFlag = keccak256(encryptedFlag),
                   !.isCompleted = TRUE]

completeAudit(sender, auditId, encryptedFlag) ==
    LET err == completeAuditErr(sender, auditId) IN
    /\ Transaction
    /\ result' = Call("completeAudit", sender, 0, auditId,
                      encryptedFlag, NoData, 0, err, NoRet)
    /\ IF err = OK
       THEN /\ auditRecords' = PutAudit(auditId,
                   CompletedAudit(AuditAt(auditId), encryptedFlag))
            /\ events' = Append(events,
                   [name |-> "AuditCompleted",
                    accountId |-> AuditAt(auditId).accountId,
                    auditId |-> auditId])
            /\ UNCHANGED <<auditor, totalAccounts, accounts, userAccounts,
                           accountAudits>>
       ELSE UNCHANGED ledger
    /\ UNCHANGED block

(***************************************************************************)
(* deactivateAccount / reactivateAccount                                   *)
(***************************************************************************)
\* the modifiers without the owner check
ownerGateErrValidOnly(sender, accountId) == validAccount(accountId)

ownerGateErr(sender, accountId) ==
    Then(validAccount(accountId), onlyAccountOwner(sender, accountId))

\* a switch that only ever switches off
SetInactive(account, flag) == [account EXCEPT !.isActive = FALSE]

\* a switch that flips isActive whatever it is asked for
SetFlipped(account, flag) == [account EXCEPT !.isActive = ~@]

SetActive(account, flag) == [account EXCEPT !.isActive = flag]

\* a deactivateAccount that writes before the owner check and does not
\* roll the write back
deactivateAccountWriteFirst(sender, accountId) ==
    LET err == ownerGateErr(sender, accountId) IN
    /\ Transaction
    /\ result' = Call("deactivateAccount", sender, accountId, NoId, NoData,
                      NoData, 0, err, NoRet)
    /\ IF validAccount(accountId) = OK
       THEN accounts' = PutAccount(accountId,
                                   SetActive(AccountAt(accountId), FALSE))
       ELSE UNCHANGED accounts
    /\ UNCHANGED <<auditor, totalAccounts, auditRecords, userAccounts,
                   accountAudits, events, block>>

deactivateAccount(sender, accountId) ==
    LET err == ownerGateErr(sender, accountId) IN
    /\ Transaction
    /\ result' = Call("deactivateAccount", sender, accountId, NoId, NoData,
                      NoData, 0, err, NoRet)
    /\ IF err = OK
       THEN accounts' = PutAccount(accountId,
                                   SetActive(AccountAt(accountId), FALSE))
       ELSE UNCHANGED accounts
    /\ UNCHANGED <<auditor, totalAccounts, auditRecords, userAccounts,
                   accountAudits, events, block>>

reactivateAccount(sender, accountId) ==
    LET err == ownerGateErr(sender, accountId) IN
    /\ Transaction
    /\ result' = Call("reactivateAccount", sender, accountId, NoId, NoData,
                      NoData, 0, err, NoRet)
    /\ IF err = OK
       THEN accounts' = PutAccount(accountId,
                                   SetActive(AccountAt(accountId), TRUE))
       ELSE UNCHANGED accounts
    /\ UNCHANGED <<auditor, totalAccounts, auditRecords, userAccounts,
                   accountAudits, events, block>>

(***************************************************************************)
(* transferAuditor                                                         *)
(***************************************************************************)
\* a check that lets address(0) through
newAuditorNonZeroAlways(newAuditor) == OK

newAuditorNonZero(newAuditor) ==
    IF newAuditor # 0 THEN OK ELSE ErrZeroAuditor

\* a check that lets the current auditor through
newAuditorDiffersAlways(newAuditor) == OK

newAuditorDiffers(newAuditor) ==
    IF newAuditor # auditor THEN OK ELSE ErrSameAuditor

\* the checks without the role check
transferAuditorErrOpen(sender, newAuditor) ==
    Then(newAuditorNonZero(newAuditor), newAuditorDiffers(newAuditor))

transferAuditorErr(sender, newAuditor) ==
    Then(onlyAuditor(sender),
         Then(newAuditorNonZero(newAuditor),
              newAuditorDiffers(newAuditor)))

\* a transferAuditor that emits nothing
transferAuditorSilent(sender, newAuditor) ==
    LET err == transferAuditorErr(sender, newAuditor) IN
    /\ Transaction
    /\ result' = Call("transferAuditor", sender, 0, NoId, NoData, NoData,
                      newAuditor, err, NoRet)
    /\ IF err = OK
       THEN /\ auditor' = newAuditor
            /\ UNCHANGED <<totalAccounts, accounts, auditRecords,
                           userAccounts, accountAudits, events>>
       ELSE UNCHANGED ledger
    /\ UNCHANGED block

transferAuditor(sender, newAuditor) ==
    LET err == transferAuditorErr(sender, newAuditor) IN
    /\ Transaction
    /\ result' = Call("transferAuditor", sender, 0, NoId, NoData, NoData,
                      newAuditor, err, NoRet)
    /\ IF err = OK
       THEN /\ auditor' = newAuditor
            /\ events' = Append(events,
                   [name |-> "AuditorTransferred",
                    previousAuditor |-> auditor,
                    newAuditor |-> newAuditor])
            /\ UNCHANGED <<totalAccounts, accounts, auditRecords,
                           userAccounts, accountAudits>>
       ELSE UNCHANGED ledger
    /\ UNCHANGED block

(***************************************************************************)
(* View functions.  A view is a read of the current state: it is no        *)
(* transaction, changes nothing and leaves no record.  Each has an         *)
(* operator for its outcome (revert message and returned values), with the *)
(* caller as a parameter where the function reads msg.sender, and an       *)
(* action that leaves the state as it is.                                  *)
(***************************************************************************)
BoolWord(b) == IF b THEN <<1>> ELSE <<0>>

Outcome(err, ret) == [err |-> err, ret |-> IF err = OK THEN ret ELSE NoRet]

getAccountInfoView(accountId) ==
    Outcome(validAccount(accountId),
            <<BoolWord(AccountAt(accountId).isActive),
              <<AccountAt(accountId).lastUpdated>>,
              <<AccountAt(accountId).accountOwner>>,
              AccountAt(accountId).accountType>>)

getUserAccountsView(user) == Outcome(OK, <<userAccounts[user]>>)

\* an access check that forgets the auditor
balanceAccessOwnerOnly(sender, accountId) ==
    IF sender = AccountAt(accountId).accountOwner
    THEN OK ELSE ErrBalanceAccess

balanceAccess(sender, accountId) ==
    IF sender = AccountAt(accountId).accountOwner \/ sender = auditor
    THEN OK ELSE ErrBalanceAccess

transactionsAccess(sender, accountId) ==
    IF sender = AccountAt(accountId).accountOwner \/ sender = auditor
    THEN OK ELSE ErrTxAccess

getEncryptedBalanceView(sender, accountId) ==
    Outcome(Then(validAccount(accountId), balanceAccess(sender, accountId)),
            <<AccountAt(accountId).encryptedBalance>>)

getEncryptedTransactionsView(sender, accountId) ==
    Outcome(Then(validAccount(accountId),
                 transactionsAccess(sender, accountId)),
            <<AccountAt(accountId).encryptedTransactions>>)

getAuditRecordView(sender, auditId) ==
    Outcome(Then(onlyAuditor(sender), auditExists(auditId)),
            <<<<AuditAt(auditId).accountId>>,
              <<AuditAt(auditId).auditTimestamp>>,
              BoolWord(AuditAt(auditId).isCompleted),
              AuditAt(auditId).auditType>>)

getAuditFlagView(sender, auditId) ==
    Outcome(Then(onlyAuditor(sender), auditExists(auditId)),
            <<AuditAt(auditId).discrepancyFlag>>)

getAccountAuditsView(accountId) ==
    Outcome(validAccount(accountId), AuditsOf(accountId))

getTotalAccountsView == Outcome(OK, <<<<totalAccounts>>>>)

auditorView == Outcome(OK, <<<<auditor>>>>)

\* a read of the contract, by any caller with any argument, passes the
\* function's modifiers and requires in order, ends in OK or in one of the
\* function's reverts, and changes nothing
getAccountInfo ==
    /\ \A a \in AccountIdArgs :
           validAccount(a) \in {OK, ErrInvalidAccount}
    /\ UNCHANGED vars

getUserAccounts ==
    /\ \A u \in Addresses : getUserAccountsView(u).err = OK
    /\ UNCHANGED vars

getEncryptedBalance ==
    /\ \A s \in Users, a \in AccountIdArgs :
           Then(validAccount(a), balanceAccess(s, a))
               \in {OK, ErrInvalidAccount, ErrBalanceAccess}
    /\ UNCHANGED vars

getEncryptedTransactions ==
    /\ \A s \in Users, a \in AccountIdArgs :
           Then(validAccount(a), transactionsAccess(s, a))
               \in {OK, ErrInvalidAccount, ErrTxAccess}
    /\ UNCHANGED vars

getAuditRecord ==
    /\ \A s \in Users, x \in AuditIdArgs :
           Then(onlyAuditor(s), auditExists(x))
               \in {OK, ErrNotAuditor, ErrAuditMissing}
    /\ UNCHANGED vars

getAuditFlag ==
    /\ \A s \in Users, x \in AuditIdArgs :
           Then(onlyAuditor(s), auditExists(x))
               \in {OK, ErrNotAuditor, ErrAuditMissing}
    /\ UNCHANGED vars

getAccountAudits ==
    /\ \A a \in AccountIdArgs :
           validAccount(a) \in {OK, ErrInvalidAccount}
    /\ UNCHANGED vars

getTotalAccounts ==
    /\ getTotalAccountsView.err = OK
    /\ UNCHANGED vars

getAuditor ==
    /\ auditorView.err = OK
    /\ UNCHANGED vars

Next ==
    \/ NewBlock
    \/ \E s \in Users, b \in BytesArgs, l \in StringArgs :
           createAccount(s, b, l)
    \/ \E s \in Users, a \in AccountIdArgs, b \in BytesArgs, l \in StringArgs :
           updateBalance(s, a, b, l)
    \/ \E s \in Users, a \in AccountIdArgs, l \in AuditTypeArgs :
           initiateAudit(s, a, l)
    \/ \E s \in Users, x \in AuditIdArgs, b \in BytesArgs :
           completeAudit(s, x, b)
    \/ \E s \in Users, a \in AccountIdArgs : deactivateAccount(s, a)
    \/ \E s \in Users, a \in AccountIdArgs : reactivateAccount(s, a)
    \/ \E s \in Users, n \in Addresses : transferAuditor(s, n)
    \/ getAccountInfo
    \/ getUserAccounts
    \/ getEncryptedBalance
    \/ getEncryptedTransactions
    \/ getAuditRecord
    \/ getAuditFlag
    \/ getAccountAudits
    \/ getTotalAccounts
    \/ getAuditor

Spec == Init /\ [][Next]_vars

\* the same contract, deployed the same way, with DeepTx transactions
InitDeep ==
    /\ auditor = Deployer
    /\ totalAccounts = 0
    /\ accounts = <<>>
    /\ auditRecords = <<>>
    /\ userAccounts = [a \in Addresses |-> <<>>]
    /\ accountAudits = <<>>
    /\ events = <<>>
    /\ timestamp = 1
    /\ prevrandao \in Randao
    /\ txLeft = DeepTx
    /\ result = Call("constructor", Deployer, 0, NoId, NoData, NoData, 0,
                     OK, NoRet)
    /\ AppInit

SpecDeep == InitDeep /\ [][Next]_vars

(***************************************************************************)
(* The front-end App (src/unnamed/part_001): createAccount,                *)
(* updateAccountBalance and initiateAudit.  A handler runs from one await  *)
(* to the next in one step; the wallet, the provider and the chain decide  *)
(* how each await ends.  The buttons of the three handlers are disabled    *)
(* while `loading` is true, so one handler runs at a time.                 *)
(***************************************************************************)
Handlers == {"createAccount", "updateAccountBalance", "initiateAudit"}

\* the handlers that parse an amount typed by the user
Parsing == {"createAccount", "updateAccountBalance"}

\* the handlers that reload the accounts once the receipt is in
Reloading == {"createAccount", "updateAccountBalance"}

\* what the form holds when the handler starts
FormInputs == {"missing", "malformed", "wellFormed"}

\* a hash that is not the hash of a transaction the App submitted
ForeignHash == -1

\* the errors an await rejects with, by the two properties the handlers read
Error(code, hash) == [code |-> code, hash |-> hash]

\* ethers.parseEther on a malformed amount
ParseErrors == {Error("INVALID_ARGUMENT", NoHash)}

\* estimateGas, getFeeData, getBalance: the call reverts or the network fails
CallErrors == {Error("CALL_EXCEPTION", NoHash), Error("NETWORK_ERROR", NoHash)}

\* sending: the user rejects in the wallet, or the funds do not cover the gas
SendErrors == {Error("ACTION_REJECTED", NoHash),
               Error("INSUFFICIENT_FUNDS", NoHash)}

\* txResponse.wait(): the transaction reverted, or it was replaced (the error
\* then carries a hash, of this transaction or of its replacement)
WaitErrors ==
    {Error("CALL_EXCEPTION", NoHash),
     Error("TRANSACTION_REPLACED", txResponseHash),
     Error("TRANSACTION_REPLACED", ForeignHash)}

\* throw new Error('Transaction failed')
TransactionFailed == Error("none", NoHash)

\* receipt.status
ReceiptStatuses == {0, 1}

\* prev.map(tx => tx.hash === hash ? { ...tx, status } : tx)
MarkStatus(hash, status) ==
    [i \in 1..Len(transactionHistory) |->
        IF transactionHistory[i].hash = hash
        THEN [transactionHistory[i] EXCEPT !.status = status]
        ELSE transactionHistory[i]]

\* the message of the catch block
ErrorMessage(error) ==
    IF error.code = "ACTION_REJECTED" THEN "cancelled"
    ELSE IF error.code = "INSUFFICIENT_FUNDS" THEN "insufficient"
    ELSE "failed"

\* catch (error) { ... } finally { setLoadingState(false) }
Catch(error) ==
    /\ transactionHistory' =
           IF error.hash # NoHash THEN MarkStatus(error.hash, "failed")
           ELSE transactionHistory
    /\ message' = ErrorMessage(error)
    /\ loading' = FALSE
    /\ handler' = "none"
    /\ pc' = "idle"
    /\ txResponseHash' = NoHash
    /\ UNCHANGED sent

\* the handler goes on to its next await
Await(next) ==
    /\ pc' = next
    /\ UNCHANGED <<handler, loading, sent>>

\* a click on the button of a handler: the guard, setLoadingState(true), the
\* parsing of the amount, and the call of estimateGas
Start(fn, input) ==
    /\ handler = "none"
    /\ ~loading
    /\ sent < MaxSent
    /\ IF input = "missing"
       THEN /\ message' = "missing"
            /\ UNCHANGED <<loading, transactionHistory, handler, pc,
                           txResponseHash, sent>>
       ELSE IF input = "malformed" /\ fn \in Parsing
       THEN \E error \in ParseErrors : Catch(error)
       ELSE /\ loading' = TRUE
            /\ message' = "estimating"
            /\ handler' = fn
            /\ pc' = "estimateGas"
            /\ UNCHANGED <<transactionHistory, txResponseHash, sent>>
    /\ UNCHANGED contract

\* await contract.<fn>.estimateGas(...)
EstimateGas ==
    /\ pc = "estimateGas"
    /\ \/ /\ Await("getFeeData")
          /\ UNCHANGED <<transactionHistory, message, txResponseHash>>
       \/ \E error \in CallErrors : Catch(error)
    /\ UNCHANGED contract

\* await provider.getFeeData(), and the call that sends the transaction
GetFeeData ==
    /\ pc = "getFeeData"
    /\ \/ /\ Await("send")
          /\ message' = "confirm"
          /\ UNCHANGED <<transactionHistory, txResponseHash>>
       \/ \E error \in CallErrors : Catch(error)
    /\ UNCHANGED contract

\* await contract.<fn>(...): the entry of the transaction enters the history
Send ==
    /\ pc = "send"
    /\ \/ /\ pc' = "wait"
          /\ sent' = sent + 1
          /\ txResponseHash' = sent + 1
          /\ transactionHistory' =
                 <<[hash |-> sent + 1, status |-> "pending",
                    type |-> handler]>> \o transactionHistory
          /\ message' = "waiting"
          /\ UNCHANGED <<handler, loading>>
       \/ \E error \in SendErrors : Catch(error)
    /\ UNCHANGED contract

\* await txResponse.wait(), and what follows the receipt
Wait ==
    /\ pc = "wait"
    /\ \/ \E status \in ReceiptStatuses :
             IF status = 1
             THEN /\ transactionHistory' =
                        MarkStatus(txResponseHash, "confirmed")
                  /\ IF handler \in Reloading
                     THEN Await("loadUserData") /\ message' = "loading"
                     ELSE Await("getBalance") /\ message' = "done"
                  /\ UNCHANGED txResponseHash
             ELSE Catch(TransactionFailed)
       \/ \E error \in WaitErrors : Catch(error)
    /\ UNCHANGED contract

\* await loadUserData(contract, account): it catches its own errors
LoadUserData ==
    /\ pc = "loadUserData"
    /\ Await("getBalance")
    /\ message' \in {"loaded", "notLoaded"}
    /\ UNCHANGED <<transactionHistory, txResponseHash>>
    /\ UNCHANGED contract

\* await provider.getBalance(account), and the end of the handler
GetBalance ==
    /\ pc = "getBalance"
    /\ \/ /\ loading' = FALSE
          /\ handler' = "none"
          /\ pc' = "idle"
          /\ txResponseHash' = NoHash
          /\ UNCHANGED <<transactionHistory, message, sent>>
       \/ \E error \in CallErrors : Catch(error)
    /\ UNCHANGED contract

NextApp ==
    \/ \E fn \in Handlers, input \in FormInputs : Start(fn, input)
    \/ EstimateGas
    \/ GetFeeData
    \/ Send
    \/ Wait
    \/ LoadUserData
    \/ GetBalance

SpecApp == Init /\ [][NextApp]_vars
(***************************************************************************)
(* Properties.                                                             *)
(***************************************************************************)

\* this step is a transaction calling the function `op`
TxStep(op) == txLeft' = txLeft - 1 /\ result'.op = op

\* the ids of the accounts that exist
Existing == 1..totalAccounts

\* the AccountCreated events of the log, in order
Created == SelectSeq(events, LAMBDA e : e.name = "AccountCreated")

\* C1: the k-th successful createAccount returns id k: every createAccount
\* goes through, returns totalAccounts + 1 and makes it the new
\* totalAccounts, and no other step changes totalAccounts; so totalAccounts
\* is the number of accounts created so far and the k-th AccountCreated
\* event carries id k.
C1_SequentialIds ==
    /\ [](/\ totalAccounts = Len(Created)
          /\ \A k \in 1..Len(Created) : Created[k].accountId = k)
    /\ [][/\ TxStep("createAccount") =>
                /\ result'.err = OK
                /\ result'.ret = <<totalAccounts + 1>>
                /\ totalAccounts' = totalAccounts + 1
          /\ ~TxStep("createAccount") => totalAccounts' = totalAccounts]_vars

\* C1 witness: a second account has been created and got id 2
C1_Witness ==
    /\ result.op = "createAccount"
    /\ result.ret = <<2>>
    /\ totalAccounts = 2

\* C2: updateBalance on an existing account by anyone but its owner, the
\* auditor included, reverts as Unauthorized and changes nothing.
C2_UpdateByNonOwner ==
    [][(/\ TxStep("updateBalance")
        /\ result'.accountId \in Existing
        /\ result'.sender # accounts[result'.accountId].accountOwner)
       => (result'.err \in Unauthorized /\ UNCHANGED ledger)]_vars

\* C2 witness: the auditor, who does not own the account, was turned away
C2_Witness ==
    /\ result.op = "updateBalance"
    /\ result.accountId \in Existing
    /\ result.sender = auditor
    /\ result.sender # accounts[result.accountId].accountOwner
    /\ result.err \in Unauthorized

\* C3: initiateAudit by anyone but the auditor reverts as Unauthorized,
\* whatever the accountId, writes no audit record and appends to no audit
\* index.
C3_InitiateByNonAuditor ==
    [][(TxStep("initiateAudit") /\ result'.sender # auditor)
       => /\ result'.err \in Unauthorized
          /\ auditRecords' = auditRecords
          /\ accountAudits' = accountAudits]_vars

\* C3 witness: the owner of an existing, active account was turned away
C3_Witness ==
    /\ result.op = "initiateAudit"
    /\ result.sender # auditor
    /\ result.accountId \in Existing
    /\ result.sender = accounts[result.accountId].accountOwner
    /\ accounts[result.accountId].isActive
    /\ result.err \in Unauthorized
\* C4: completeAudit by the auditor on an existing, open record goes through
\* and marks it completed; a second completeAudit on the same auditId right
\* after it reverts as AuditAlreadyCompleted, whatever flag bytes it passes,
\* and changes nothing (the flag of the first call and the log stay).
C4_CompleteTwice ==
    [][/\ (/\ TxStep("completeAudit")
           /\ result'.sender = auditor
           /\ result'.auditId \in DOMAIN auditRecords
           /\ ~auditRecords[result'.auditId].isCompleted)
          => /\ result'.err = OK
             /\ auditRecords'[result'.auditId].isCompleted
       /\ (/\ result.op = "completeAudit"
           /\ result.err = OK
           /\ TxStep("completeAudit")
           /\ result'.auditId = result.auditId
           /\ result'.sender = auditor)
          => /\ result'.err \in AuditAlreadyCompleted
             /\ UNCHANGED ledger]_vars

\* C4 witness: a second completeAudit, with other flag bytes than the first,
\* was turned away and the flag of the first call is still stored
C4_Witness ==
    /\ result.op = "completeAudit"
    /\ result.sender = auditor
    /\ result.err \in AuditAlreadyCompleted
    /\ result.auditId \in DOMAIN auditRecords
    /\ auditRecords[result.auditId].isCompleted
    /\ auditRecords[result.auditId].discrepancyFlag # keccak256(result.data)
    /\ Len(events) = 3

\* C5: isCompleted is monotone: a record that is completed stays stored and
\* completed in every later state, whatever the step.
C5_CompletedStays ==
    [][\A x \in DOMAIN auditRecords :
           auditRecords[x].isCompleted
           => (x \in DOMAIN auditRecords' /\ auditRecords'[x].isCompleted)]_vars

\* C6: a successful initiateAudit stores the account's current
\* encryptedBalance as auditedBalance of the new record, and the
\* auditedBalance stored under an auditId never changes in a later step.
C6_SnapshotFrozen ==
    [][/\ (TxStep("initiateAudit") /\ result'.err = OK)
          => /\ result'.ret[1] \in DOMAIN auditRecords'
             /\ auditRecords'[result'.ret[1]].auditedBalance
                    = accounts[result'.accountId].encryptedBalance
       /\ \A x \in DOMAIN auditRecords :
              /\ x \in DOMAIN auditRecords'
              /\ auditRecords'[x].auditedBalance
                     = auditRecords[x].auditedBalance]_vars

\* the AuditorTransferred events of the log, in order
Transfers == SelectSeq(events, LAMBDA e : e.name = "AuditorTransferred")

\* C7: a successful transferAuditor from A to X makes X the auditor and emits
\* AuditorTransferred(A, X); from then until the next transfer, auditor()
\* returns X, every auditor-only function called by A reverts as
\* Unauthorized and initiateAudit by X on an existing active account goes
\* through.
C7_AfterTransfer ==
    /\ [][(TxStep("transferAuditor") /\ result'.err = OK)
          => /\ auditor' = result'.target
             /\ events' = Append(events,
                    [name |-> "AuditorTransferred",
                     previousAuditor |-> auditor,
                     newAuditor |-> result'.target])]_vars
    /\ [](Transfers # <<>> =>
            LET A == Transfers[Len(Transfers)].previousAuditor
                X == Transfers[Len(Transfers)].newAuditor
            IN /\ A # X
               /\ auditor = X
               /\ auditorView = [err |-> OK, ret |-> <<<<X>>>>]
               /\ \A a \in AccountIdArgs :
                      initiateAuditErr(A, a) \in Unauthorized
               /\ \A x \in AuditIdArgs :
                      /\ completeAuditErr(A, x) \in Unauthorized
                      /\ getAuditRecordView(A, x).err \in Unauthorized
                      /\ getAuditFlagView(A, x).err \in Unauthorized
               /\ \A n \in Addresses :
                      transferAuditorErr(A, n) \in Unauthorized
               /\ \A a \in Existing :
                      accounts[a].isActive => initiateAuditErr(X, a) = OK)

\* C7 witness: after a transfer the new auditor has initiated an audit
C7_Witness ==
    /\ Transfers # <<>>
    /\ result.op = "initiateAudit"
    /\ result.err = OK
    /\ result.sender = Transfers[Len(Transfers)].newAuditor
    /\ result.sender = auditor

C9_DeactivateReactivate ==
    [][\A flag \in BOOLEAN :
        (/\ TxStep(IF flag THEN "reactivateAccount" ELSE "deactivateAccount")
         /\ result'.accountId \in Existing
         /\ result'.sender = accounts[result'.accountId].accountOwner)
        => LET before == accounts[result'.accountId]
               after == accounts'[result'.accountId]
           IN /\ result'.err = OK
              /\ after.isActive = flag
              /\ after.accountOwner = before.accountOwner
              /\ after.accountType = before.accountType
              /\ after.encryptedBalance = before.encryptedBalance
              /\ after.encryptedTransactions
                     = before.encryptedTransactions]_vars

\* C9 witness: the owner has reactivated an account, which is active again
C9_Witness ==
    /\ result.op = "reactivateAccount"
    /\ result.err = OK
    /\ result.accountId \in Existing
    /\ result.sender = accounts[result.accountId].accountOwner
    /\ accounts[result.accountId].isActive

\* C10: updateBalance by the owner of an existing account reverts as
\* InactiveAccount while the account is inactive, leaving its commitments
\* and lastUpdated as they were; a reactivateAccount by the owner makes the
\* account active, and on an active account the call goes through.
C10_UpdateWhileInactive ==
    [][/\ (/\ TxStep("updateBalance")
           /\ result'.accountId \in Existing
           /\ result'.sender = accounts[result'.accountId].accountOwner)
          => IF accounts[result'.accountId].isActive
             THEN result'.err = OK
             ELSE /\ result'.err \in InactiveAccount
                  /\ accounts' = accounts
       /\ (TxStep("reactivateAccount") /\ result'.err = OK)
          => accounts'[result'.accountId].isActive]_vars

\* C10 witness: the owner's update of an inactive account was turned away
C10_Witness ==
    /\ result.op = "updateBalance"
    /\ result.accountId \in Existing
    /\ result.sender = accounts[result.accountId].accountOwner
    /\ ~accounts[result.accountId].isActive
    /\ result.err \in InactiveAccount

\* C11: on an existing account, active or not, getEncryptedBalance and
\* getEncryptedTransactions return the stored commitment to the account's
\* owner and to the current auditor, and revert as Unauthorized for everyone
\* else; a former auditor who is neither is turned away.
C11_CommitmentGetters ==
    /\ \A s \in Users, a \in Existing :
           LET bal == getEncryptedBalanceView(s, a)
               txs == getEncryptedTransactionsView(s, a)
           IN IF s = accounts[a].accountOwner \/ s = auditor
              THEN /\ bal = [err |-> OK,
                             ret |-> <<accounts[a].encryptedBalance>>]
                   /\ txs = [err |-> OK,
                             ret |-> <<accounts[a].encryptedTransactions>>]
              ELSE /\ bal.err \in Unauthorized
                   /\ txs.err \in Unauthorized
    /\ \A A \in {Transfers[i].previousAuditor : i \in 1..Len(Transfers)},
          a \in Existing :
           (A # auditor /\ A # accounts[a].accountOwner)
              => /\ getEncryptedBalanceView(A, a).err \in Unauthorized
                 /\ getEncryptedTransactionsView(A, a).err \in Unauthorized

\* C11 witness: on an inactive account the former auditor, who does not own
\* it, is turned away while the owner and the new auditor may read
C11_Witness ==
    /\ Transfers # <<>>
    /\ \E a \in Existing :
         LET A == Transfers[Len(Transfers)].previousAuditor
             O == accounts[a].accountOwner
         IN /\ ~accounts[a].isActive
            /\ A # O /\ A # auditor /\ O # auditor
            /\ getEncryptedBalanceView(A, a).err \in Unauthorized
            /\ getEncryptedTransactionsView(A, a).err \in Unauthorized
            /\ getEncryptedBalanceView(O, a).err = OK
            /\ getEncryptedTransactionsView(auditor, a).err = OK

\* C12: the account records are those with ids 1..totalAccounts (id 0 holds
\* none), and no step removes an account or changes its accountOwner or
\* accountType.
C12_AccountIdentity ==
    /\ [](/\ DOMAIN accounts = 1..totalAccounts
          /\ AccountAt(0) = ZeroAccount
          /\ getAccountInfoView(0).err \in InvalidAccount)
    /\ [][\A a \in DOMAIN accounts :
              /\ a \in DOMAIN accounts'
              /\ accounts'[a].accountOwner = accounts[a].accountOwner
              /\ accounts'[a].accountType = accounts[a].accountType]_vars

\* C12 witness: an account that somebody else than the auditor created has
\* had its balance updated and still has the owner and type of its creation
C12_Witness ==
    /\ result.op = "updateBalance"
    /\ result.err = OK
    /\ result.accountId \in DOMAIN accounts
    /\ accounts[result.accountId].accountOwner # auditor
    /\ accounts[result.accountId].accountOwner
           = Created[result.accountId].owner
    /\ accounts[result.accountId].accountType
           = Created[result.accountId].accountType

\* C13: the accountId, auditTimestamp and auditType stored under an auditId
\* never change in a later step.
C13_AuditFieldsFrozen ==
    [][\A x \in DOMAIN auditRecords :
           /\ x \in DOMAIN auditRecords'
           /\ auditRecords'[x].accountId = auditRecords[x].accountId
           /\ auditRecords'[x].auditTimestamp = auditRecords[x].auditTimestamp
           /\ auditRecords'[x].auditType = auditRecords[x].auditType]_vars

\* the storage of the contract, without the event log
Storage == <<auditor, totalAccounts, accounts, auditRecords, userAccounts,
             accountAudits>>

\* the functions that emit an event, and the event each emits
Emitting == {"createAccount", "updateBalance", "initiateAudit",
             "completeAudit", "transferAuditor"}

EventName(op) ==
    CASE op = "createAccount" -> "AccountCreated"
      [] op = "updateBalance" -> "BalanceUpdated"
      [] op = "initiateAudit" -> "AuditInitiated"
      [] op = "completeAudit" -> "AuditCompleted"
      [] op = "transferAuditor" -> "AuditorTransferred"

\* this step keeps every entry of the log as it is
LogKept ==
    /\ Len(events') >= Len(events)
    /\ SubSeq(events', 1, Len(events)) = events

\* C14 as stated: a transaction that goes through and changes the storage,
\* deactivateAccount and reactivateAccount included, appends one event to the
\* log, and no step alters or removes an entry of the log.
C14_EveryChangeLogged ==
    [][/\ (txLeft' # txLeft /\ result'.err = OK /\ Storage' # Storage)
          => Len(events') = Len(events) + 1
       /\ LogKept]_vars

\* C14 as amended: a createAccount, updateBalance, initiateAudit,
\* completeAudit or transferAuditor that goes through appends exactly one
\* event, of its kind and about the account, audit or auditor it acted on;
\* deactivateAccount and reactivateAccount append nothing; and no step
\* alters or removes an entry of the log.
C14_EventsOfChanges ==
    [][/\ \A op \in Emitting :
              (TxStep(op) /\ result'.err = OK)
              => /\ Len(events') = Len(events) + 1
                 /\ LET e == events'[Len(events')]
                    IN /\ e.name = EventName(op)
                       /\ op = "createAccount"
                              => e.accountId = totalAccounts'
                       /\ op \in {"updateBalance", "initiateAudit"}
                              => e.accountId = result'.accountId
                       /\ op = "initiateAudit"
                              => e.auditId = result'.ret[1]
                       /\ op = "completeAudit"
                              => /\ e.auditId = result'.auditId
                                 /\ e.accountId
                                      = auditRecords[result'.auditId].accountId
                       /\ op = "transferAuditor"
                              => /\ e.previousAuditor = auditor
                                 /\ e.newAuditor = auditor'
       /\ (TxStep("deactivateAccount") \/ TxStep("reactivateAccount"))
              => events' = events
       /\ LogKept]_vars

\* C14 witness: the owner has deactivated the one account there is, and the
\* log holds the event of its creation and nothing else
C14_Witness ==
    /\ result.op = "deactivateAccount"
    /\ result.err = OK
    /\ totalAccounts = 1
    /\ ~accounts[1].isActive
    /\ Len(events) = 1
    /\ events[1].name = "AccountCreated"

\* C15: createAccount reverts for no caller in no state; it returns the next
\* id and stores under it an active account of the caller with the hashes of
\* the balance bytes and of the label and the current time, appends the id to
\* the caller's list and emits AccountCreated(id, caller, hash of the label).
C15_CreateAccount ==
    /\ [](txLeft > 0 =>
            \A s \in Users : ENABLED createAccount(s, <<0>>, <<8>>))
    /\ [][TxStep("createAccount") =>
            LET id == totalAccounts + 1
                s == result'.sender
            IN /\ result'.err = OK
               /\ result'.ret = <<id>>
               /\ accounts' = PutAccount(id,
                      [encryptedBalance |-> keccak256(result'.data),
                       encryptedTransactions |-> keccak256(PackedZero),
                       isActive |-> TRUE,
                       lastUpdated |-> timestamp,
                       accountOwner |-> s,
                       accountType |-> keccak256(result'.label)])
               /\ userAccounts' =
                      [userAccounts EXCEPT ![s] = Append(@, id)]
               /\ events' = Append(events,
                      [name |-> "AccountCreated", accountId |-> id,
                       owner |-> s,
                       accountType |-> keccak256(result'.label)])]_vars

\* C15 witness: a caller who is not the auditor and whose first account is
\* inactive has created a second one, which closes the caller's list
C15_Witness ==
    /\ result.op = "createAccount"
    /\ result.sender # auditor
    /\ Len(userAccounts[result.sender]) = 2
    /\ userAccounts[result.sender][2] = totalAccounts
    /\ ~accounts[userAccounts[result.sender][1]].isActive
    /\ accounts[totalAccounts].isActive
    /\ accounts[totalAccounts].accountOwner = result.sender

\* C16: an updateBalance goes through only for the owner of an existing,
\* active account; it stores the hash of the new balance bytes and the
\* current time, leaves isActive, accountOwner and accountType as they were
\* and emits BalanceUpdated(accountId, current time, hash of the label).
C16_UpdateBalance ==
    [][(TxStep("updateBalance") /\ result'.err = OK) =>
          LET a == result'.accountId
          IN /\ a \in Existing
             /\ result'.sender = accounts[a].accountOwner
             /\ accounts[a].isActive
             /\ accounts'[a].encryptedBalance = keccak256(result'.data)
             /\ accounts'[a].lastUpdated = timestamp
             /\ accounts'[a].isActive
             /\ accounts'[a].accountOwner = accounts[a].accountOwner
             /\ accounts'[a].accountType = accounts[a].accountType
             /\ events' = Append(events,
                    [name |-> "BalanceUpdated", accountId |-> a,
                     timestamp |-> timestamp,
                     updateType |-> keccak256(result'.label)])]_vars

\* C16 witness: a balance was updated in the second block: the account holds
\* the hash of the new bytes and the time of that block
C16_Witness ==
    /\ result.op = "updateBalance"
    /\ result.err = OK
    /\ timestamp = 2
    /\ accounts[result.accountId].lastUpdated = 2
    /\ accounts[result.accountId].encryptedBalance = keccak256(result.data)
    /\ accounts[result.accountId].isActive
    /\ events[Len(events)].name = "BalanceUpdated"
    /\ events[Len(events)].timestamp = 2

\* C17: while nothing has been sent to the freshly deployed contract, the
\* auditor is the deployer, totalAccounts is 0, there are no accounts and no
\* audit records, and every list of accounts and of audits is empty.
C17_FreshLedger ==
    result.op = "constructor" =>
        /\ auditor = result.sender
        /\ auditor = Deployer
        /\ auditorView = [err |-> OK, ret |-> <<<<Deployer>>>>]
        /\ totalAccounts = 0
        /\ getTotalAccountsView = [err |-> OK, ret |-> <<<<0>>>>]
        /\ accounts = <<>>
        /\ auditRecords = <<>>
        /\ \A u \in Addresses : getUserAccountsView(u).ret = <<<<>>>>
        /\ \A a \in AccountIdArgs : AuditsOf(a) = <<>>
        /\ events = <<>>

\* C17 witness: a block has been mined since the deployment and no
\* transaction was sent
C17_Witness ==
    /\ result.op = "constructor"
    /\ timestamp = 2
    /\ auditor = Deployer
    /\ totalAccounts = 0

\* C18: transferAuditor by the current auditor to address(0) or to the
\* current auditor reverts as InvalidAuditor, leaving the auditor and the log
\* as they were; by anyone else it reverts as Unauthorized, whatever the new
\* auditor.
C18_TransferAuditorErrors ==
    [][TxStep("transferAuditor") =>
          /\ result'.sender # auditor
                => /\ result'.err \in Unauthorized
                   /\ auditor' = auditor
                   /\ events' = events
          /\ (result'.sender = auditor /\ result'.target \in {0, auditor})
                => /\ result'.err \in InvalidAuditor
                   /\ auditor' = auditor
                   /\ events' = events]_vars

\* C18 witness: an auditor who got the role by a transfer tried to transfer
\* it to themselves and was turned away
C18_Witness ==
    /\ result.op = "transferAuditor"
    /\ result.sender = auditor
    /\ result.target = auditor
    /\ result.err \in InvalidAuditor
    /\ Len(Transfers) = 1
    /\ Transfers[1].newAuditor = auditor

\* C19: completeAudit reverts as Unauthorized for anyone but the auditor,
\* else as AuditNotFound when no record is stored under the auditId, else as
\* AuditAlreadyCompleted when the record is completed; otherwise it goes
\* through, stores the hash of the flag bytes, marks the record completed
\* and emits AuditCompleted(accountId of the record, auditId).
C19_CompleteAudit ==
    [][TxStep("completeAudit") =>
          LET x == result'.auditId
          IN IF result'.sender # auditor
             THEN result'.err \in Unauthorized
             ELSE IF x \notin DOMAIN auditRecords
             THEN result'.err \in AuditNotFound
             ELSE IF auditRecords[x].isCompleted
             THEN result'.err \in AuditAlreadyCompleted
             ELSE /\ result'.err = OK
                  /\ auditRecords' =
                       [auditRecords EXCEPT
                          ![x].discrepancyFlag = keccak256(result'.data),
                          ![x].isCompleted = TRUE]
                  /\ events' = Append(events,
                         [name |-> "AuditCompleted",
                          accountId |-> auditRecords[x].accountId,
                          auditId |-> x])]_vars

\* C19 witness: somebody who is not the auditor called completeAudit on a
\* completed record and was turned away as unauthorized
C19_Witness ==
    /\ result.op = "completeAudit"
    /\ result.sender # auditor
    /\ result.auditId \in DOMAIN auditRecords
    /\ auditRecords[result.auditId].isCompleted
    /\ result.err \in Unauthorized

\* C20: getAuditRecord and getAuditFlag revert as Unauthorized for every
\* caller but the current auditor, the owner of the audited account and a
\* former auditor included; for the auditor they revert as AuditNotFound when
\* no record is stored under the auditId and return the stored fields
\* otherwise.
C20_AuditGetters ==
    \A s \in Users, x \in AuditIdArgs :
        LET rec == getAuditRecordView(s, x)
            flag == getAuditFlagView(s, x)
        IN IF s # auditor
           THEN rec.err \in Unauthorized /\ flag.err \in Unauthorized
           ELSE IF x \notin DOMAIN auditRecords
           THEN rec.err \in AuditNotFound /\ flag.err \in AuditNotFound
           ELSE /\ rec = [err |-> OK,
                          ret |-> << <<auditRecords[x].accountId>>,
                                     <<auditRecords[x].auditTimestamp>>,
                                     BoolWord(auditRecords[x].isCompleted),
                                     auditRecords[x].auditType >>]
                /\ flag = [err |-> OK,
                           ret |-> <<auditRecords[x].discrepancyFlag>>]

\* C20 witness: there is an audit of an account whose owner is not the
\* auditor, and the role has moved on: the owner and the former auditor are
\* turned away, the auditor reads the record and finds none under another id
C20_Witness ==
    /\ Transfers # <<>>
    /\ \E x \in DOMAIN auditRecords :
         LET A == Transfers[Len(Transfers)].previousAuditor
             O == accounts[auditRecords[x].accountId].accountOwner
         IN /\ O # auditor /\ A # auditor /\ O # A
            /\ getAuditRecordView(O, x).err \in Unauthorized
            /\ getAuditFlagView(A, x).err \in Unauthorized
            /\ getAuditRecordView(auditor, x).err = OK
            /\ getAuditFlagView(auditor, <<0>>).err \in AuditNotFound

\* the AuditInitiated events of the log, in order
Initiated == SelectSeq(events, LAMBDA e : e.name = "AuditInitiated")

\* C21: two initiateAudit calls that went through returned different
\* auditIds: no two AuditInitiated events of the log carry the same auditId.
C21_DistinctAuditIds ==
    \A i, j \in 1..Len(Initiated) :
        i # j => Initiated[i].auditId # Initiated[j].auditId

\* C22: deactivateAccount by the owner of an inactive account and
\* reactivateAccount by the owner of an active account go through and leave
\* the storage and the log as they were; so does the second of two equal
\* calls in a row.
C22_IdempotentSwitch ==
    [][\A flag \in BOOLEAN :
        LET op == IF flag THEN "reactivateAccount" ELSE "deactivateAccount"
        IN /\ (/\ TxStep(op)
               /\ result'.accountId \in Existing
               /\ result'.sender = accounts[result'.accountId].accountOwner
               /\ accounts[result'.accountId].isActive = flag)
              => /\ result'.err = OK
                 /\ accounts' = accounts
                 /\ UNCHANGED ledger
           /\ (/\ result.op = op
               /\ result.err = OK
               /\ TxStep(op)
               /\ result'.accountId = result.accountId
               /\ result'.sender = result.sender)
              => /\ result'.err = OK
                 /\ UNCHANGED ledger]_vars

\* C22 witness: the one account there is was created and then reactivated by
\* its owner while it was active: the call went through
C22_Witness ==
    /\ result.op = "reactivateAccount"
    /\ result.err = OK
    /\ totalAccounts = 1
    /\ txLeft = MaxTx - 2
    /\ result.sender = accounts[1].accountOwner
    /\ accounts[1].isActive

\* C23: initiateAudit by the auditor reverts as InvalidAccount for an
\* accountId out of 1..totalAccounts and as InactiveAccount for an inactive
\* account, and goes through otherwise; a call that goes through is the
\* auditor's, on an existing active account, and the record under the id it
\* returns is open, carries the current time and the account, and the id is
\* appended to the account's audits.
C23_InitiateAudit ==
    [][TxStep("initiateAudit") =>
          LET a == result'.accountId
          IN /\ result'.err = OK
                   => /\ result'.sender = auditor
                      /\ a \in Existing
                      /\ accounts[a].isActive
             /\ result'.sender = auditor =>
                  IF a \notin Existing THEN result'.err \in InvalidAccount
                  ELSE IF ~accounts[a].isActive
                  THEN result'.err \in InactiveAccount
                  ELSE /\ result'.err = OK
                       /\ Len(result'.ret) = 1
                       /\ result'.ret[1] \in DOMAIN auditRecords'
                       /\ auditRecords'[result'.ret[1]].accountId = a
                       /\ ~auditRecords'[result'.ret[1]].isCompleted
                       /\ auditRecords'[result'.ret[1]].auditTimestamp
                              = timestamp
                       /\ accountAudits'[a]
                              = Append(AuditsOf(a), result'.ret[1])]_vars

\* C23 witness: the auditor asked for an audit of an existing account that
\* its owner had deactivated, and was turned away
C23_Witness ==
    /\ result.op = "initiateAudit"
    /\ result.sender = auditor
    /\ result.accountId \in Existing
    /\ ~accounts[result.accountId].isActive
    /\ result.err \in InactiveAccount
    /\ AuditsOf(result.accountId) = <<>>

\* C24 as stated: a step that changes an account record (or creates it)
\* leaves the current time in its lastUpdated, and a step that does not
\* leaves lastUpdated as it was.
C24_LastUpdatedIsLastMutation ==
    [][\A a \in DOMAIN accounts' :
          IF AccountAt(a) # accounts'[a]
          THEN accounts'[a].lastUpdated = timestamp
          ELSE accounts'[a].lastUpdated = AccountAt(a).lastUpdated]_vars

\* C24 as amended: a createAccount or an updateBalance that goes through
\* leaves the current time in lastUpdated of its account; every other step,
\* deactivateAccount and reactivateAccount included, leaves lastUpdated of
\* every account as it was.
C24_LastUpdatedIsLastBalance ==
    [][\A a \in DOMAIN accounts' :
          IF \/ (TxStep("createAccount") /\ a = totalAccounts')
             \/ (/\ TxStep("updateBalance")
                 /\ result'.err = OK
                 /\ a = result'.accountId)
          THEN accounts'[a].lastUpdated = timestamp
          ELSE /\ a \in DOMAIN accounts
               /\ accounts'[a].lastUpdated = accounts[a].lastUpdated]_vars

\* C24 witness: an account of the first block was deactivated by its owner in
\* the second and still carries the time of the first
C24_Witness ==
    /\ result.op = "deactivateAccount"
    /\ result.err = OK
    /\ timestamp = 2
    /\ txLeft = MaxTx - 2
    /\ ~accounts[result.accountId].isActive
    /\ accounts[result.accountId].lastUpdated = 1

\* the AuditCompleted events of the log, in order
Completed == SelectSeq(events, LAMBDA e : e.name = "AuditCompleted")

\* C25: every stored audit record that is not completed carries the hash of
\* a packed zero as its flag; a record with another flag is completed, and a
\* completeAudit on its id has gone through.
C25_SentinelFlag ==
    \A x \in DOMAIN auditRecords :
        /\ ~auditRecords[x].isCompleted
              => auditRecords[x].discrepancyFlag = keccak256(PackedZero)
        /\ auditRecords[x].discrepancyFlag # keccak256(PackedZero)
              => /\ auditRecords[x].isCompleted
                 /\ \E i \in 1..Len(Completed) : Completed[i].auditId = x

\* C25 witness: a completeAudit went through and left another flag than the
\* one the record was created with
C25_Witness ==
    /\ result.op = "completeAudit"
    /\ result.err = OK
    /\ auditRecords[result.auditId].isCompleted
    /\ auditRecords[result.auditId].discrepancyFlag = keccak256(result.data)
    /\ auditRecords[result.auditId].discrepancyFlag # keccak256(PackedZero)

\* s is an initial segment of t
IsPrefix(s, t) == Len(s) <= Len(t) /\ SubSeq(t, 1, Len(s)) = s

\* C26: no step removes or alters an entry of an owner's list of accounts or
\* of an account's list of audits: each list is an initial segment of the
\* list the step leaves.
C26_IndicesAppendOnly ==
    [][/\ \A u \in Addresses : IsPrefix(userAccounts[u], userAccounts'[u])
       /\ \A a \in DOMAIN accountAudits :
              /\ a \in DOMAIN accountAudits'
              /\ IsPrefix(accountAudits[a], accountAudits'[a])]_vars

\* C26 witness: an account that has an audit was deactivated; it is still in
\* its owner's list and the audit still in its own
C26_Witness ==
    /\ result.op = "deactivateAccount"
    /\ result.err = OK
    /\ ~accounts[result.accountId].isActive
    /\ userAccounts[result.sender] = <<result.accountId>>
    /\ Len(AuditsOf(result.accountId)) = 1

\* C27: the last call, if it is an updateBalance, reverted as InvalidAccount
\* for an accountId out of 1..totalAccounts whoever called, else as
\* Unauthorized for a caller who is not the owner, active account or not,
\* else as InactiveAccount for an inactive account, and went through
\* otherwise; a deactivateAccount or reactivateAccount likewise, up to the
\* owner check.
C27_ErrorOrder ==
    LET a == result.accountId
        s == result.sender
    IN /\ result.op = "updateBalance" =>
            IF a \notin Existing THEN result.err \in InvalidAccount
            ELSE IF s # accounts[a].accountOwner
            THEN result.err \in Unauthorized
            ELSE IF ~accounts[a].isActive
            THEN result.err \in InactiveAccount
            ELSE result.err = OK
       /\ result.op \in {"deactivateAccount", "reactivateAccount"} =>
            IF a \notin Existing THEN result.err \in InvalidAccount
            ELSE IF s # accounts[a].accountOwner
            THEN result.err \in Unauthorized
            ELSE result.err = OK

\* C27 witness: somebody who does not own an inactive account called
\* updateBalance on it and was turned away as unauthorized
C27_Witness ==
    /\ result.op = "updateBalance"
    /\ result.accountId \in Existing
    /\ result.sender # accounts[result.accountId].accountOwner
    /\ ~accounts[result.accountId].isActive
    /\ result.err \in Unauthorized

\* C28: isActive of an account changes only in a deactivateAccount or
\* reactivateAccount on that account that goes through and was called by the
\* account's owner.
C28_OnlyOwnerSwitches ==
    [][\A a \in DOMAIN accounts :
          accounts'[a].isActive # accounts[a].isActive
          => /\ TxStep("deactivateAccount") \/ TxStep("reactivateAccount")
             /\ result'.err = OK
             /\ result'.accountId = a
             /\ result'.sender = accounts[a].accountOwner]_vars

\* C28 witness: an owner who is not the auditor has switched an account off
C28_Witness ==
    /\ result.op = "deactivateAccount"
    /\ result.err = OK
    /\ result.sender = accounts[result.accountId].accountOwner
    /\ result.sender # auditor
    /\ ~accounts[result.accountId].isActive

\* the commitment n chaining steps after hash(0)
RECURSIVE ChainAt(_)
ChainAt(n) ==
    IF n = 0 THEN keccak256(PackedZero)
    ELSE keccak256(ChainAt(n - 1) \o <<1>>)

\* the number of BalanceUpdated events of an account in the log
Updates(a) ==
    Cardinality({i \in 1..Len(events) :
                    /\ events[i].name = "BalanceUpdated"
                    /\ events[i].accountId = a})

\* C29: encryptedTransactions of an account is hash(0) chained as many times
\* as updateBalance went through on the account (each such call emitted one
\* BalanceUpdated event, and nothing else did).
C29_TransactionChain ==
    \A a \in DOMAIN accounts :
        accounts[a].encryptedTransactions = ChainAt(Updates(a))

\* C29 witness: an account whose balance was updated twice
C29_Witness ==
    /\ result.op = "updateBalance"
    /\ result.err = OK
    /\ Updates(result.accountId) = 2
    /\ accounts[result.accountId].encryptedTransactions = ChainAt(2)

\* C30: the auditor changes only in a transferAuditor that goes through and
\* was called by the auditor of before the step, and the new auditor is the
\* argument of the call.
C30_OnlyAuditorTransfers ==
    [][auditor' # auditor
       => /\ TxStep("transferAuditor")
          /\ result'.err = OK
          /\ result'.sender = auditor
          /\ auditor' = result'.target]_vars

\* C30 witness: the auditor has handed the role to somebody else
C30_Witness ==
    /\ result.op = "transferAuditor"
    /\ result.err = OK
    /\ auditor = result.target
    /\ auditor # Deployer
    /\ Transfers[Len(Transfers)].previousAuditor = result.sender

\* accountIds that do not exist: 0 and ids past the last
Missing == {0, totalAccounts + 1, totalAccounts + 2}

\* C31: for an accountId that is 0 or past totalAccounts, getAccountInfo,
\* getEncryptedBalance, getEncryptedTransactions and getAccountAudits revert
\* as InvalidAccount whoever calls, the auditor included; on an existing id
\* getAccountInfo and getAccountAudits return the stored values.
C31_GettersOnInvalidIds ==
    [](/\ \A a \in Missing :
              /\ getAccountInfoView(a).err \in InvalidAccount
              /\ getAccountAuditsView(a).err \in InvalidAccount
              /\ \A s \in Users :
                     /\ getEncryptedBalanceView(s, a).err \in InvalidAccount
                     /\ getEncryptedTransactionsView(s, a).err
                            \in InvalidAccount
       /\ \A a \in Existing :
              /\ getAccountInfoView(a) =
                     [err |-> OK,
                      ret |-> <<BoolWord(accounts[a].isActive),
                                <<accounts[a].lastUpdated>>,
                                <<accounts[a].accountOwner>>,
                                accounts[a].accountType>>]
              /\ getAccountAuditsView(a) = [err |-> OK, ret |-> AuditsOf(a)])

\* C31 witness: there is an account, and the auditor's read of the balance
\* of the id after it is refused as invalid, not as unauthorized
C31_Witness ==
    /\ totalAccounts = 1
    /\ accounts[1].accountOwner # auditor
    /\ getEncryptedBalanceView(auditor, 2).err \in InvalidAccount
    /\ getEncryptedTransactionsView(accounts[1].accountOwner, 0).err
           \in InvalidAccount
    /\ getAccountInfoView(1).err = OK
    /\ getAccountAuditsView(1).err = OK

\* C32: in the log, an AuditCompleted event comes after an AuditInitiated
\* event of the same account and audit, a BalanceUpdated or AuditInitiated
\* event comes after the AccountCreated event of its account, and the i-th
\* AccountCreated event carries id i.
C32_CausalLog ==
    [](/\ \A i \in 1..Len(events) :
              /\ events[i].name = "AuditCompleted"
                   => \E j \in 1..(i - 1) :
                          /\ events[j].name = "AuditInitiated"
                          /\ events[j].accountId = events[i].accountId
                          /\ events[j].auditId = events[i].auditId
              /\ events[i].name \in {"BalanceUpdated", "AuditInitiated"}
                   => \E j \in 1..(i - 1) :
                          /\ events[j].name = "AccountCreated"
                          /\ events[j].accountId = events[i].accountId
       /\ \A i \in 1..Len(Created) : Created[i].accountId = i)

\* C32 witness: the log of an account created, audited and the audit
\* completed
C32_Witness ==
    /\ Len(events) = 3
    /\ events[1].name = "AccountCreated"
    /\ events[2].name = "AuditInitiated"
    /\ events[3].name = "AuditCompleted"
    /\ events[3].auditId = events[2].auditId
    /\ events[3].accountId = events[1].accountId

\* C33: the auditor is never address(0), and exactly one address passes
\* onlyAuditor.
C33_AlwaysAnAuditor ==
    [](/\ auditor \in Users
       /\ auditor # 0
       /\ Cardinality({s \in Addresses : onlyAuditor(s) = OK}) = 1
       /\ onlyAuditor(auditor) = OK)

\* C33 witness: an auditor who got the role by a transfer tried to hand it
\* to address(0) and was turned away
C33_Witness ==
    /\ Transfers # <<>>
    /\ result.op = "transferAuditor"
    /\ result.sender = auditor
    /\ result.target = 0
    /\ result.err \in InvalidAuditor
    /\ auditor # 0

\* the ids of the accounts an address owns
OwnedBy(o) == {a \in Existing : accounts[a].accountOwner = o}

RECURSIVE SumLen(_)
SumLen(S) ==
    IF S = {} THEN 0
    ELSE LET o == CHOOSE x \in S : TRUE
         IN Len(userAccounts[o]) + SumLen(S \ {o})

\* C34: the list of accounts of an address is the increasing sequence of the
\* existing ids whose accountOwner it is; the lengths of the lists add up to
\* totalAccounts.
C34_OwnerIndex ==
    [](/\ \A o \in Addresses :
              LET ids == userAccounts[o]
              IN /\ \A i, j \in 1..Len(ids) : i < j => ids[i] < ids[j]
                 /\ {ids[i] : i \in 1..Len(ids)} = OwnedBy(o)
       /\ \A a \in Existing :
              Cardinality({o \in Addresses :
                              \E i \in 1..Len(userAccounts[o]) :
                                  userAccounts[o][i] = a}) = 1
       /\ SumLen(Addresses) = totalAccounts)

\* C34 witness: two owners, the accounts of one of them around the account
\* of the other
C34_Witness ==
    \E o, p \in Users :
        /\ o # p
        /\ userAccounts[o] = <<1, 3>>
        /\ userAccounts[p] = <<2>>

\* C35: every id in the list of audits of an account has a record of that
\* account; the id of every record is in the list of its account and in no
\* other list; every record is of an existing account, so the test
\* accountId != 0 holds of the written records and of no other id.
C35_AuditIndex ==
    [](/\ \A a \in DOMAIN accountAudits :
              \A i \in 1..Len(accountAudits[a]) :
                  /\ accountAudits[a][i] \in DOMAIN auditRecords
                  /\ auditRecords[accountAudits[a][i]].accountId = a
       /\ \A x \in DOMAIN auditRecords :
              /\ auditRecords[x].accountId \in Existing
              /\ \A a \in 0..(totalAccounts + 1) :
                     (\E i \in 1..Len(AuditsOf(a)) : AuditsOf(a)[i] = x)
                     <=> a = auditRecords[x].accountId
       /\ \A x \in AuditIdArgs :
              auditExists(x) = OK <=> x \in DOMAIN auditRecords)

\* C35 witness: an account with two audits under different ids
C35_Witness ==
    \E a \in Existing :
        /\ Len(AuditsOf(a)) = 2
        /\ AuditsOf(a)[1] # AuditsOf(a)[2]
        /\ {AuditsOf(a)[1], AuditsOf(a)[2]} = DOMAIN auditRecords

\* C36: a step from a state in which an account is inactive leaves its
\* encryptedBalance, encryptedTransactions and lastUpdated and its list of
\* audits as they were; an updateBalance or initiateAudit on it reverts.
C36_InactiveFrozen ==
    [][\A a \in DOMAIN accounts :
          ~accounts[a].isActive
          => /\ accounts'[a].encryptedBalance = accounts[a].encryptedBalance
             /\ accounts'[a].encryptedTransactions
                    = accounts[a].encryptedTransactions
             /\ accounts'[a].lastUpdated = accounts[a].lastUpdated
             /\ (IF a \in DOMAIN accountAudits' THEN accountAudits'[a]
                 ELSE <<>>) = AuditsOf(a)
             /\ ((TxStep("updateBalance") \/ TxStep("initiateAudit"))
                 /\ result'.accountId = a)
                    => result'.err # OK]_vars

\* C36 witness: an account of the first block is inactive in the second,
\* the auditor's initiateAudit on it was turned away, and it carries what it
\* was created with
C36_Witness ==
    /\ result.op = "initiateAudit"
    /\ result.sender = auditor
    /\ result.err \in InactiveAccount
    /\ timestamp = 2
    /\ ~accounts[result.accountId].isActive
    /\ accounts[result.accountId].lastUpdated = 1
    /\ accounts[result.accountId].encryptedTransactions = ChainAt(0)
    /\ AuditsOf(result.accountId) = <<>>

\* C37: completeAudit on a stored, open record goes through for the current
\* auditor, whether the audited account is active or not and whoever was
\* auditor when the record was written, and reverts as Unauthorized for
\* everybody else, every former auditor included.
C37_CompleteAuditByRole ==
    \A x \in DOMAIN auditRecords :
        ~auditRecords[x].isCompleted
        => /\ completeAuditErr(auditor, x) = OK
           /\ \A s \in Users \ {auditor} :
                  completeAuditErr(s, x) \in Unauthorized
           /\ \A i \in 1..Len(Transfers) :
                  Transfers[i].previousAuditor # auditor
                  => completeAuditErr(Transfers[i].previousAuditor, x)
                         \in Unauthorized

\* C37 witness: an audit that the deployer initiated was completed by the
\* auditor the deployer handed the role to
C37_Witness ==
    /\ result.op = "completeAudit"
    /\ result.err = OK
    /\ result.sender = auditor
    /\ auditor # Deployer
    /\ Len(Transfers) = 1
    /\ Transfers[1].previousAuditor = Deployer
    /\ Len(Initiated) = 1
    /\ Initiated[1].auditId = result.auditId
    /\ completeAuditErr(Deployer, result.auditId) \in Unauthorized

\* C38: an updateBalance, deactivateAccount or reactivateAccount that goes
\* through leaves the other accounts, the audit records, both indices, the
\* auditor and totalAccounts as they were; an initiateAudit or completeAudit
\* leaves the accounts, userAccounts, the auditor and totalAccounts; a
\* createAccount leaves the existing accounts and the audit records; a
\* transferAuditor changes the auditor and the log only.
C38_Frame ==
    [][(txLeft' # txLeft /\ result'.err = OK) =>
          /\ result'.op \in {"updateBalance", "deactivateAccount",
                             "reactivateAccount"}
                => /\ DOMAIN accounts' = DOMAIN accounts
                   /\ \A a \in DOMAIN accounts \ {result'.accountId} :
                          accounts'[a] = accounts[a]
                   /\ UNCHANGED <<auditRecords, userAccounts, accountAudits,
                                  auditor, totalAccounts>>
          /\ result'.op \in {"initiateAudit", "completeAudit"}
                => UNCHANGED <<accounts, userAccounts, auditor,
                               totalAccounts>>
          /\ result'.op = "createAccount"
                => /\ \A a \in DOMAIN accounts :
                          /\ a \in DOMAIN accounts'
                          /\ accounts'[a] = accounts[a]
                   /\ UNCHANGED auditRecords
          /\ result'.op = "transferAuditor"
                => UNCHANGED <<totalAccounts, accounts, auditRecords,
                               userAccounts, accountAudits>>]_vars

\* C38 witness: of two accounts the second had its balance updated, and the
\* first still holds what it was created with
C38_Witness ==
    /\ result.op = "updateBalance"
    /\ result.err = OK
    /\ totalAccounts = 2
    /\ result.accountId = 2
    /\ accounts[2].encryptedBalance # accounts[1].encryptedBalance
    /\ accounts[1].encryptedTransactions = ChainAt(0)
    /\ accounts[2].encryptedTransactions = ChainAt(1)

\* C39: when no handler runs, no entry of transactionHistory is pending and
\* loading is false: the entry a handler added is confirmed or failed once
\* the wait for its receipt is over, and the handler has switched loading
\* off on its way out.
C39_HistorySettles ==
    handler = "none" =>
        /\ ~loading
        /\ \A i \in 1..Len(transactionHistory) :
               transactionHistory[i].status \in {"confirmed", "failed"}
====
